---------------------------- MODULE Spec2Model ----------------------------
(***************************************************************************)
(* A model of the geometric kernel in src/src/lib.rs: Vector algebra, Ray, *)
(* Sphere::intersect_ray and Camera::screen_ray.                           *)
(*                                                                         *)
(* Numbers.  The code computes in f32.  The model computes with exact      *)
(* rationals extended by the IEEE special values: a number is a pair       *)
(* <<n, d>> in lowest terms with d > 0, and <<1, 0>>, <<-1, 0>>, <<0, 0>>  *)
(* stand for +inf, -inf and NaN.  The inputs are drawn from values on      *)
(* which every square root the code takes is the square root of a rational *)
(* square (or of a negative number, which gives NaN), and on which every   *)
(* sum, product and square root is a number of few bits that f32 holds     *)
(* exactly.  Division is the one operation whose result f32 has to round   *)
(* on these inputs (x / len in normalized gives thirds and fifths): FDiv   *)
(* rounds its quotient to the nearest f32.  The sign of zero is not        *)
(* modelled: no input makes the code divide by a negative zero.            *)
(***************************************************************************)
EXTENDS Integers, Sequences, FiniteSets, TLC

VARIABLES op, sphere, ray, camera, sx, sy, vec, pc, res

vars == <<op, sphere, ray, camera, sx, sy, vec, pc, res>>

---------------------------------------------------------------------------
(* Bounds of the input space.                                              *)

MaxCoord == 4

MaxRadius == 5

---------------------------------------------------------------------------
(* f32 arithmetic.                                                         *)

Abs(i) == IF i < 0 THEN -i ELSE i

Sgn(i) == IF i < 0 THEN -1 ELSE IF i > 0 THEN 1 ELSE 0

RECURSIVE GCD(_, _)
GCD(a, b) == IF b = 0 THEN a ELSE GCD(b, a % b)

Q(n, d) ==
    IF d = 0 THEN <<Sgn(n), 0>>
    ELSE LET g == GCD(Abs(n), Abs(d))
         IN  <<(Sgn(d) * Sgn(n)) * (Abs(n) \div g), Abs(d) \div g>>

F(i) == <<i, 1>>

NaN == <<0, 0>>

Inf == <<1, 0>>

Zero == <<0, 1>>

One == <<1, 1>>

IsNaN(a) == a = NaN

IsFinite(a) == a[2] # 0

FNeg(a) == <<-a[1], a[2]>>

FAdd(a, b) ==
    IF IsFinite(a) /\ IsFinite(b) THEN Q(a[1] * b[2] + b[1] * a[2], a[2] * b[2])
    ELSE IF IsNaN(a) \/ IsNaN(b) THEN NaN
    ELSE IF ~IsFinite(a) /\ ~IsFinite(b) THEN (IF a = b THEN a ELSE NaN)
    ELSE IF ~IsFinite(a) THEN a
    ELSE b

FSub(a, b) == FAdd(a, FNeg(b))

FMul(a, b) == Q(a[1] * b[1], a[2] * b[2])

\* The exponent e >= 0 with 2^23 <= n * 2^e / d, for 0 < n / d < 2^23.
RECURSIVE SigShift(_, _, _)
SigShift(n, d, e) ==
    IF n * (2 ^ e) < d * (2 ^ 23) THEN SigShift(n, d, e + 1) ELSE e

\* The f32 nearest to a number: a significand of 24 bits, ties to even.  A
\* number whose denominator is a power of two within those 24 bits is kept
\* as it is.  (Magnitudes of 2^23 and more, and subnormals, do not occur in
\* the quotients the inputs give.)
round_f32(a) ==
    IF ~IsFinite(a) \/ a[1] = 0 \/ Abs(a[1]) >= a[2] * (2 ^ 23) THEN a
    ELSE LET n == Abs(a[1])
             d == a[2]
             e == SigShift(n, d, 0)
             num == n * (2 ^ e)
             m0 == num \div d
             rem == num % d
             m == IF 2 * rem > d \/ (2 * rem = d /\ m0 % 2 = 1) THEN m0 + 1 ELSE m0
         IN  Q(Sgn(a[1]) * m, 2 ^ e)

\* f32 division: the exact quotient, rounded
FDiv(a, b) ==
    LET recip == IF b[1] < 0 THEN <<-b[2], -b[1]>> ELSE <<b[2], b[1]>>
    IN  round_f32(FMul(a, recip))

FLe(a, b) ==
    /\ ~IsNaN(a)
    /\ ~IsNaN(b)
    /\ IF ~IsFinite(a) /\ ~IsFinite(b) THEN a[1] <= b[1]
       ELSE a[1] * b[2] <= b[1] * a[2]

FLt(a, b) ==
    /\ ~IsNaN(a)
    /\ ~IsNaN(b)
    /\ IF ~IsFinite(a) /\ ~IsFinite(b) THEN a[1] < b[1]
       ELSE a[1] * b[2] < b[1] * a[2]

FGt(a, b) == FLt(b, a)

ISqrt(n) == CHOOSE k \in 0..n : k * k <= n /\ n < (k + 1) * (k + 1)

IsSquare(n) == ISqrt(n) * ISqrt(n) = n

FSqrt(a) ==
    IF IsNaN(a) \/ a[1] < 0 THEN NaN
    ELSE IF ~IsFinite(a) THEN Inf
    ELSE Q(ISqrt(a[1]), ISqrt(a[2]))

powf2(a) == FMul(a, a)

---------------------------------------------------------------------------
(* Vector.                                                                 *)

Vector(x, y, z) == [x |-> x, y |-> y, z |-> z]

zero == Vector(Zero, Zero, Zero)

unitx == Vector(One, Zero, Zero)

unity == Vector(Zero, One, Zero)

unitz == Vector(Zero, Zero, One)

dot(a, b) == FAdd(FAdd(FMul(a.x, b.x), FMul(a.y, b.y)), FMul(a.z, b.z))

cross(a, b) ==
    Vector(FSub(FMul(a.y, b.z), FMul(a.z, b.y)),
           FSub(FMul(a.z, b.x), FMul(a.x, b.z)),
           FSub(FMul(a.x, b.y), FMul(a.y, b.x)))

len_arg(a) == FAdd(FAdd(powf2(a.x), powf2(a.y)), powf2(a.z))

len(a) == FSqrt(len_arg(a))

normalized(a) ==
    LET l == len(a)
    IN  Vector(FDiv(a.x, l), FDiv(a.y, l), FDiv(a.z, l))

add(a, b) == Vector(FAdd(a.x, b.x), FAdd(a.y, b.y), FAdd(a.z, b.z))

mul(a, s) == Vector(FMul(a.x, s), FMul(a.y, s), FMul(a.z, s))

smul(s, a) == mul(a, s)

sub(a, b) == add(a, smul(F(-1), b))

div(a, s) == Vector(FDiv(a.x, s), FDiv(a.y, s), FDiv(a.z, s))

neg(a) == Vector(FNeg(a.x), FNeg(a.y), FNeg(a.z))

---------------------------------------------------------------------------
(* Ray.                                                                    *)

Ray(pos, dir) == [pos |-> pos, dir |-> dir]

forwarded(r, distance) == Ray(add(r.pos, mul(r.dir, distance)), r.dir)

---------------------------------------------------------------------------
(* Intersection.                                                           *)

None == [tag |-> "None"]

Hit(point) == [tag |-> "Hit", point |-> point]

---------------------------------------------------------------------------
(* Sphere.  intersect_ray returns the Intersection together with the       *)
(* locals the call computed before it returned: exit names the return      *)
(* statement taken, and a local the call never computed is Unset.          *)

Sphere(center, radius) == [center |-> center, radius |-> radius]

Unset == <<>>

\* mutant of is_inside: an origin on the surface counts as outside
is_inside_strict(pos_to_center, radius) == FLt(len(pos_to_center), radius)

\* line 175: the ray starts inside the sphere or on its surface
is_inside(pos_to_center, radius) == FLe(len(pos_to_center), radius)

\* mutant of is_behind: the comparison turned around
is_behind_flipped(tcenter) == FLt(Zero, tcenter)

\* line 182: the sphere is in the opposite direction
is_behind(tcenter) == FLt(tcenter, Zero)

\* line 189: the argument of the square root that gives d
d_arg(pos_to_center, tcenter) == FSub(powf2(len(pos_to_center)), powf2(tcenter))

\* mutant of is_miss: a tangent counts as a miss
is_miss_or_touch(d, radius) == FLe(radius, d)

\* line 192: the ray line passes the sphere at a distance
is_miss(d, radius) == FGt(d, radius)

\* line 199: the argument of the square root that gives tdelta
tdelta_arg(radius, d) == FSub(powf2(radius), powf2(d))

\* mutant of hit_distance: the far crossing
hit_distance_far(tcenter, tdelta) == FAdd(tcenter, tdelta)

\* line 202: the ray parameter of the point returned
hit_distance(tcenter, tdelta) == FSub(tcenter, tdelta)

intersect_ray(s, r) ==
    LET pos_to_center == sub(s.center, r.pos)
        tcenter == dot(pos_to_center, r.dir)
        darg == d_arg(pos_to_center, tcenter)
        d == FSqrt(darg)
        targ == tdelta_arg(s.radius, d)
        tdelta == FSqrt(targ)
        intersection_point == forwarded(r, hit_distance(tcenter, tdelta)).pos
    IN  IF is_inside(pos_to_center, s.radius) THEN
            [ret |-> None, exit |-> "inside", tcenter |-> Unset,
             d_arg |-> Unset, d |-> Unset, tdelta_arg |-> Unset, tdelta |-> Unset]
        ELSE IF is_behind(tcenter) THEN
            [ret |-> None, exit |-> "behind", tcenter |-> tcenter,
             d_arg |-> Unset, d |-> Unset, tdelta_arg |-> Unset, tdelta |-> Unset]
        ELSE IF is_miss(d, s.radius) THEN
            [ret |-> None, exit |-> "miss", tcenter |-> tcenter,
             d_arg |-> darg, d |-> d, tdelta_arg |-> Unset, tdelta |-> Unset]
        ELSE
            [ret |-> Hit(intersection_point), exit |-> "hit", tcenter |-> tcenter,
             d_arg |-> darg, d |-> d, tdelta_arg |-> targ, tdelta |-> tdelta]

---------------------------------------------------------------------------
(* Camera.  The field of view is an angle; the code takes the tangent of   *)
(* half of it and nothing else, so an angle is represented by the tangent  *)
(* of its half: Radians(t) is the f32 nearest to 2 * atan(t).  Only angles *)
(* whose f32 tangent of the half is exactly t are used as inputs.          *)

Radians(t) == [tan_half |-> t]

Camera(position, forward, up, aspect_ratio, fovx) ==
    [position |-> position, forward |-> forward, up |-> up,
     aspect_ratio |-> aspect_ratio, fovx |-> fovx]

Panic == [tag |-> "panic"]

\* mutant of in_unit_interval: the bounds excluded
in_unit_interval_open(v) == FLt(Zero, v) /\ FLt(v, One)

\* lines 249-250: the condition of one assert!
in_unit_interval(v) == FLe(Zero, v) /\ FLe(v, One)

\* mutant of posunit_to_unit: the range not centred
posunit_to_unit_uncentred(value) == FMul(value, F(2))

posunit_to_unit(value) == FSub(FMul(value, F(2)), One)

\* mutant of yunit_of: the y axis not turned over
yunit_of_unflipped(y) == posunit_to_unit(y)

\* line 254
yunit_of(y) == FNeg(posunit_to_unit(y))

\* line 260: (self.fovx.0 / 2.0).tan()
tan_half_angle(fovx) == fovx.tan_half

\* line 260
screen_width_of(fovx) == FMul(F(2), tan_half_angle(fovx))

\* line 261
screen_height_of(screen_width, aspect_ratio) == FDiv(screen_width, aspect_ratio)

screen_ray(c, x, y) ==
    LET right == cross(c.forward, c.up)
        xunit == posunit_to_unit(x)
        yunit == yunit_of(y)
        screen_width == screen_width_of(c.fovx)
        screen_height == screen_height_of(screen_width, c.aspect_ratio)
        xterm == div(mul(mul(right, xunit), screen_width), F(2))
        yterm == div(mul(mul(c.up, yunit), screen_height), F(2))
        point_at_screen == add(add(add(c.position, c.forward), xterm), yterm)
        r == Ray(c.position, normalized(sub(point_at_screen, c.position)))
    IN  IF ~in_unit_interval(x) \/ ~in_unit_interval(y) THEN Panic
        ELSE [tag |-> "Ray", ray |-> r, right |-> right, xunit |-> xunit,
              yunit |-> yunit, screen_width |-> screen_width,
              screen_height |-> screen_height, xterm |-> xterm, yterm |-> yterm,
              point_at_screen |-> point_at_screen]

---------------------------------------------------------------------------
(* The inputs.  A call is representable when every square root it takes is *)
(* that of a rational square, of a negative number, or of a special value. *)

ExactSqrt(a) ==
    IF ~IsFinite(a) \/ a[1] < 0 THEN TRUE ELSE IsSquare(a[1]) /\ IsSquare(a[2])

Coords == (-MaxCoord)..MaxCoord

IntVectors == {Vector(F(x), F(y), F(z)) : x \in Coords, y \in Coords, z \in Coords}

AxisUnits == {unitx, unity, unitz, neg(unitx), neg(unity), neg(unitz)}

\* the integer grid and the centre of the documented example
Centers == IntVectors \cup {Vector(Zero, Zero, F(5))}

Origins == {zero, unitz, Vector(Q(1, 2), Zero, Zero)}

Directions ==
    AxisUnits \cup {zero, Vector(Zero, Zero, F(2)), Vector(Zero, Zero, Q(1, 2)),
                    Vector(One, One, Zero), Vector(Zero, F(-2), Zero),
                    Vector(One, One, One)}

Radii == {F(k) : k \in (-1)..MaxRadius} \cup {Q(1, 2), Q(3, 2)}

Positions == {zero, Vector(One, F(2), F(3))}

Forwards == {unitz, unitx, neg(unity), zero}

Ups == {unitx, unity, unitz}

AspectRatios == {Q(1, 2), One, F(2)}

\* the angles 2*atan(1/2), 2*atan(3/4) and pi/2: for each, the f32 nearest
\* to it has (fovx / 2.0).tan() equal to 1/2, 3/4 and 1 exactly
FieldsOfView == {Radians(Q(1, 2)), Radians(Q(3, 4)), Radians(One)}

ScreenCoords == {Q(-1, 2), Zero, Q(1, 4), Q(1, 2), One, Q(3, 2), NaN}

RepresentableIntersect(s, r) ==
    /\ ExactSqrt(len_arg(sub(s.center, r.pos)))
    /\ LET out == intersect_ray(s, r)
       IN  /\ out.d_arg # Unset => ExactSqrt(out.d_arg)
           /\ out.tdelta_arg # Unset => ExactSqrt(out.tdelta_arg)

RepresentableScreenRay(c, x, y) ==
    LET out == screen_ray(c, x, y)
    IN  out # Panic => ExactSqrt(len_arg(sub(out.point_at_screen, c.position)))

RepresentableNormalized(v) == ExactSqrt(len_arg(v))

---------------------------------------------------------------------------
(* The state machine: one call of one operation on inputs chosen at the    *)
(* start; pc is "call" before the operation ran and "return" after.  A     *)
(* camera's up is orthogonal to its forward (forward may be the zero       *)
(* vector, which the code accepts).                                        *)

InitIntersect ==
    /\ op = "intersect_ray"
    /\ \E c \in Centers, p \in Origins :
          /\ ExactSqrt(len_arg(sub(c, p)))
          /\ \E rad \in Radii, dir \in Directions :
                /\ RepresentableIntersect(Sphere(c, rad), Ray(p, dir))
                /\ sphere = Sphere(c, rad)
                /\ ray = Ray(p, dir)
    /\ camera = Unset /\ sx = Unset /\ sy = Unset /\ vec = Unset

InitScreenRay ==
    /\ op = "screen_ray"
    /\ \E p \in Positions, f \in Forwards, u \in Ups, a \in AspectRatios,
          fov \in FieldsOfView, x \in ScreenCoords, y \in ScreenCoords :
          /\ dot(f, u) = Zero
          /\ RepresentableScreenRay(Camera(p, f, u, a, fov), x, y)
          /\ camera = Camera(p, f, u, a, fov)
          /\ sx = x
          /\ sy = y
    /\ sphere = Unset /\ ray = Unset /\ vec = Unset

InitNormalized ==
    /\ op = "normalized"
    /\ \E v \in IntVectors : RepresentableNormalized(v) /\ vec = v
    /\ sphere = Unset /\ ray = Unset /\ camera = Unset /\ sx = Unset /\ sy = Unset

Init ==
    /\ pc = "call"
    /\ res = Unset
    /\ (InitIntersect \/ InitScreenRay \/ InitNormalized)

IntersectRay ==
    /\ pc = "call"
    /\ op = "intersect_ray"
    /\ res' = intersect_ray(sphere, ray)
    /\ pc' = "return"
    /\ UNCHANGED <<op, sphere, ray, camera, sx, sy, vec>>

ScreenRay ==
    /\ pc = "call"
    /\ op = "screen_ray"
    /\ res' = screen_ray(camera, sx, sy)
    /\ pc' = "return"
    /\ UNCHANGED <<op, sphere, ray, camera, sx, sy, vec>>

Normalized ==
    /\ pc = "call"
    /\ op = "normalized"
    /\ res' = normalized(vec)
    /\ pc' = "return"
    /\ UNCHANGED <<op, sphere, ray, camera, sx, sy, vec>>

Next == IntersectRay \/ ScreenRay \/ Normalized

Spec == Init /\ [][Next]_vars

---------------------------------------------------------------------------
(* Vocabulary of the properties.  These restate the geometry without the   *)
(* square roots the code takes: distances are compared by their squares.   *)

Returned(o) == pc = "return" /\ op = o

DistSq(a, b) == len_arg(sub(a, b))

HasNaN(v) == IsNaN(v.x) \/ IsNaN(v.y) \/ IsNaN(v.z)

UnitDir(r) == dot(r.dir, r.dir) = One

\* the ray origin is inside the sphere or on its surface
InsideOrOn(s, r) ==
    FLe(Zero, s.radius) /\ FLe(DistSq(s.center, r.pos), powf2(s.radius))

\* the ray origin is strictly outside the sphere
Outside(s, r) ==
    FLt(s.radius, Zero) \/ FLt(powf2(s.radius), DistSq(s.center, r.pos))

\* the projection of origin-to-centre on the direction
TCenter(s, r) == dot(sub(s.center, r.pos), r.dir)

\* the square of the distance from the centre to the line of a unit ray
PerpSq(s, r) == len_arg(cross(sub(s.center, r.pos), r.dir))

\* that distance is greater than the radius
PerpGtRadius(s, r) ==
    FLt(s.radius, Zero) \/ FLt(powf2(s.radius), PerpSq(s, r))

\* that distance equals the radius
PerpEqRadius(s, r) ==
    FLe(Zero, s.radius) /\ PerpSq(s, r) = powf2(s.radius)

PointAt(r, t) == add(r.pos, mul(r.dir, t))

---------------------------------------------------------------------------
(* C1: intersect_ray returns None for every ray whose origin is inside or  *)
(* on the sphere, whatever its direction, and returns at the first guard:  *)
(* no projection and no square root of the hit computation is computed.    *)

C1_InsideReturnsNone ==
    (Returned("intersect_ray") /\ InsideOrOn(sphere, ray)) =>
        /\ res.ret = None
        /\ res.exit = "inside"
        /\ res.tcenter = Unset
        /\ res.d_arg = Unset
        /\ res.d = Unset
        /\ res.tdelta_arg = Unset
        /\ res.tdelta = Unset

\* an origin exactly on the surface, the ray pointing into the sphere
C1_Witness ==
    /\ Returned("intersect_ray")
    /\ FLt(Zero, sphere.radius)
    /\ DistSq(sphere.center, ray.pos) = powf2(sphere.radius)
    /\ FLt(Zero, TCenter(sphere, ray))
    /\ res.ret = None

---------------------------------------------------------------------------
(* C2: a Hit for a unit-direction ray from strictly outside is the point   *)
(* ray.pos + ray.dir * (tcenter - tdelta): the closer of the two points    *)
(* where the ray line crosses the sphere, never the far one.               *)

C2_HitIsNearPoint ==
    (Returned("intersect_ray") /\ UnitDir(ray) /\ Outside(sphere, ray)
        /\ res.ret.tag = "Hit") =>
        LET tc == TCenter(sphere, ray)
            td == res.tdelta
            near == PointAt(ray, FSub(tc, td))
            far == PointAt(ray, FAdd(tc, td))
        IN  /\ res.tcenter = tc
            /\ FLe(Zero, td)
            /\ powf2(td) = FSub(powf2(sphere.radius), PerpSq(sphere, ray))
            /\ res.ret.point = near
            /\ DistSq(near, sphere.center) = powf2(sphere.radius)
            /\ DistSq(far, sphere.center) = powf2(sphere.radius)
            /\ FLe(DistSq(near, ray.pos), DistSq(far, ray.pos))
            /\ (td # Zero => res.ret.point # far)
            /\ ((sphere = Sphere(Vector(Zero, Zero, F(5)), One)
                    /\ ray = Ray(zero, unitz))
                => res.ret = Hit(Vector(Zero, Zero, F(4))))

\* the example of the specification: the near point (0,0,4), not (0,0,6)
C2_Witness ==
    /\ Returned("intersect_ray")
    /\ sphere = Sphere(Vector(Zero, Zero, F(5)), One)
    /\ ray = Ray(zero, unitz)
    /\ res.ret = Hit(Vector(Zero, Zero, F(4)))
    /\ res.tdelta = One

---------------------------------------------------------------------------
(* C3: for a unit-direction ray from strictly outside, the result is None  *)
(* when tcenter < 0 (sphere behind), None when tcenter >= 0 and the        *)
(* distance from the centre to the ray line exceeds the radius (miss), and *)
(* a Hit in every other case; the guards apply in the order inside,        *)
(* behind, miss.                                                           *)

C3_BehindMissHit ==
    (Returned("intersect_ray") /\ UnitDir(ray)) =>
        LET tc == TCenter(sphere, ray)
        IN  /\ InsideOrOn(sphere, ray) => res.exit = "inside"
            /\ (Outside(sphere, ray) /\ FLt(tc, Zero)) =>
                  (res.ret = None /\ res.exit = "behind")
            /\ (Outside(sphere, ray) /\ FLe(Zero, tc) /\ PerpGtRadius(sphere, ray)) =>
                  (res.ret = None /\ res.exit = "miss")
            /\ (Outside(sphere, ray) /\ FLe(Zero, tc) /\ ~PerpGtRadius(sphere, ray)) =>
                  (res.ret.tag = "Hit" /\ res.exit = "hit")

\* a sphere behind the origin whose line the ray nevertheless crosses
C3_Witness ==
    /\ Returned("intersect_ray")
    /\ UnitDir(ray)
    /\ Outside(sphere, ray)
    /\ FLt(TCenter(sphere, ray), Zero)
    /\ FLt(Zero, sphere.radius)
    /\ ~PerpGtRadius(sphere, ray)
    /\ res.ret = None

---------------------------------------------------------------------------
(* C4: a ray from strictly outside, pointing toward the sphere, whose      *)
(* distance d to the centre equals the radius (a tangent) gets one Hit,    *)
(* not None: the miss guard does not fire, tdelta is 0 and the point is    *)
(* ray.pos + ray.dir * tcenter.  Stated for the distance of a unit ray and *)
(* for the d the call computes.                                            *)

C4_TangentHits ==
    LET tc == TCenter(sphere, ray)
        tangent == \/ UnitDir(ray) /\ PerpEqRadius(sphere, ray)
                   \/ res.d = sphere.radius
    IN  (Returned("intersect_ray") /\ Outside(sphere, ray) /\ FLe(Zero, tc)
            /\ tangent) =>
            /\ res.exit = "hit"
            /\ res.d = sphere.radius
            /\ res.tdelta = Zero
            /\ res.ret = Hit(PointAt(ray, tc))

\* a unit ray touching a sphere of positive radius
C4_Witness ==
    /\ Returned("intersect_ray")
    /\ UnitDir(ray)
    /\ Outside(sphere, ray)
    /\ FLt(Zero, TCenter(sphere, ray))
    /\ FLt(Zero, sphere.radius)
    /\ PerpEqRadius(sphere, ray)
    /\ res.ret.tag = "Hit"

---------------------------------------------------------------------------
(* Vocabulary of the camera properties.                                    *)

\* v lies in [0, 1]
InUnitInterval(v) == IsFinite(v) /\ 0 <= v[1] /\ v[1] <= v[2]

\* the coefficient on right and the coefficient on up, as scalars
RightCoef(o) == FDiv(FMul(o.xunit, o.screen_width), F(2))

UpCoef(o) == FDiv(FMul(o.yunit, o.screen_height), F(2))

---------------------------------------------------------------------------
(* C5: screen_ray(x, y) with x or y outside [0, 1] fails its precondition  *)
(* check and produces no Ray; with both inside [0, 1], the bounds 0 and 1  *)
(* included, the check passes and a Ray is returned.                       *)

C5_ScreenCoordsChecked ==
    Returned("screen_ray") =>
        IF InUnitInterval(sx) /\ InUnitInterval(sy)
        THEN res.tag = "Ray" /\ res.ray.pos = camera.position
        ELSE res = Panic

\* a call on the boundary of the unit square that returned a Ray
C5_Witness ==
    /\ Returned("screen_ray")
    /\ sx = Zero
    /\ sy = One
    /\ res.tag = "Ray"

---------------------------------------------------------------------------
(* C6: normalized on a zero-length vector fails loudly (a panic) instead   *)
(* of returning a NaN vector, and so does an operation that normalizes a   *)
(* zero-length vector internally (screen_ray).                             *)

C6_NormalizedZeroPanics ==
    /\ (Returned("normalized") /\ len_arg(vec) = Zero) => res = Panic
    /\ (Returned("screen_ray") /\ res # Panic) =>
          len_arg(sub(res.point_at_screen, camera.position)) # Zero

---------------------------------------------------------------------------
(* C7: screen_ray(0.5, 0.5) returns a ray from the camera position along   *)
(* the forward axis: xunit and yunit are 0, the target point is position + *)
(* forward with nothing from right and up, whatever fovx and aspect_ratio. *)

C7_CentreIsForward ==
    (Returned("screen_ray") /\ sx = Q(1, 2) /\ sy = Q(1, 2)) =>
        /\ res.tag = "Ray"
        /\ res.ray.pos = camera.position
        /\ res.xunit = Zero
        /\ res.yunit = Zero
        /\ res.xterm = zero
        /\ res.yterm = zero
        /\ res.point_at_screen = add(camera.position, camera.forward)
        /\ (dot(camera.forward, camera.forward) = One => res.ray.dir = camera.forward)
        /\ \A a \in AspectRatios, fov \in FieldsOfView :
              screen_ray(Camera(camera.position, camera.forward, camera.up, a, fov),
                         sx, sy).ray = res.ray

\* the example of the specification: forward (0,0,1), up (0,1,0), fovx pi/2
C7_Witness ==
    /\ Returned("screen_ray")
    /\ sx = Q(1, 2)
    /\ sy = Q(1, 2)
    /\ camera = Camera(zero, unitz, unity, One, Radians(One))
    /\ res.ray = Ray(zero, unitz)

---------------------------------------------------------------------------
(* C8: screen (0,0) is the top-left and (1,1) the bottom-right corner:     *)
(* the target is position + forward + right*xunit*screen_width/2 +         *)
(* up*yunit*screen_height/2 with right = cross(forward, up), xunit = 2x-1, *)
(* yunit = -(2y-1) and screen_height = screen_width / aspect_ratio; the    *)
(* coefficient on right grows with x and the one on up falls with y.       *)

C8_ScreenMapping ==
    (Returned("screen_ray") /\ res # Panic) =>
        LET half_w == tan_half_angle(camera.fovx)
            half_h == FDiv(half_w, camera.aspect_ratio)
        IN  /\ res.right = cross(camera.forward, camera.up)
            /\ res.xunit = FSub(FMul(F(2), sx), One)
            /\ res.yunit = FNeg(FSub(FMul(F(2), sy), One))
            /\ res.screen_width = FMul(F(2), half_w)
            /\ res.screen_height = FDiv(res.screen_width, camera.aspect_ratio)
            /\ res.point_at_screen =
                  add(add(add(camera.position, camera.forward),
                          mul(res.right, RightCoef(res))),
                      mul(camera.up, UpCoef(res)))
            /\ res.ray = Ray(camera.position,
                             normalized(sub(res.point_at_screen, camera.position)))
            /\ (sx = Zero /\ sy = Zero) =>
                  (RightCoef(res) = FNeg(half_w) /\ UpCoef(res) = half_h)
            /\ (sx = One /\ sy = One) =>
                  (RightCoef(res) = half_w /\ UpCoef(res) = FNeg(half_h))
            /\ \A v \in ScreenCoords :
                  InUnitInterval(v) =>
                      /\ FLe(sx, v) =>
                            FLe(RightCoef(res), RightCoef(screen_ray(camera, v, sy)))
                      /\ FLe(sy, v) =>
                            FLe(UpCoef(screen_ray(camera, sx, v)), UpCoef(res))

\* the top-left corner of a screen twice as wide as high
C8_Witness ==
    /\ Returned("screen_ray")
    /\ sx = Zero
    /\ sy = Zero
    /\ camera.forward = unitz
    /\ camera.up = unity
    /\ camera.aspect_ratio = F(2)
    /\ res.tag = "Ray"
    /\ FLt(RightCoef(res), Zero)
    /\ FLt(Zero, UpCoef(res))
    /\ UpCoef(res) = FDiv(FNeg(RightCoef(res)), F(2))

---------------------------------------------------------------------------
(* C9: whenever intersect_ray reaches a square root, for any sphere and    *)
(* any ray, the argument is non-negative (that of d after the inside and   *)
(* behind guards, that of tdelta after the miss guard), so a returned Hit  *)
(* point has no NaN component.                                             *)

C9_SqrtArgsNonNegative ==
    Returned("intersect_ray") =>
        /\ res.d_arg # Unset => FLe(Zero, res.d_arg)
        /\ res.tdelta_arg # Unset => FLe(Zero, res.tdelta_arg)
        /\ res.ret.tag = "Hit" => ~HasNaN(res.ret.point)

---------------------------------------------------------------------------
(* C10: for a sphere of radius <= 0 intersect_ray returns None for every   *)
(* ray, a ray aimed through the centre included.                           *)

C10_NoHitForDegenerateRadius ==
    (Returned("intersect_ray") /\ FLe(sphere.radius, Zero)) => res.ret = None

=============================================================================
